---- MODULE Spec2Model ----
(***************************************************************************)
(* parse-storage: useLocalStorage / useSessionStorage, the codec `parse`   *)
(* and the validator adapter `getParseFn`.                                 *)
(*                                                                         *)
(* A binding is one call of a hook with a StorageConfig.  The model keeps  *)
(* the two storage areas, each binding's React state (storedValue) and the *)
(* state its last render returned (rendered: what the closure of setValue  *)
(* sees), the listeners registered on window in registration order, and    *)
(* the stack of listener invocations of the event dispatches in progress   *)
(* (window.dispatchEvent is synchronous: a dispatch started inside a       *)
(* listener runs to completion before the listener returns).  The first    *)
(* render of a binding, its effects, the re-render that follows a state    *)
(* change, setValue calls, the writes of other documents and the firing of *)
(* the storage events they cause are separate steps that come in any       *)
(* order; pending holds the storage events of other documents' writes that *)
(* the browser has not fired yet.  The exposed value of a binding is its   *)
(* React state: the value the hook returns once React has rendered it.     *)
(***************************************************************************)
EXTENDS Integers, Sequences, FiniteSets, TLC

(***************************************************************************)
(* JavaScript values.  A value is a record [type, val]; val is the text    *)
(* that distinguishes values of one type.                                  *)
(***************************************************************************)
Undefined == [type |-> "undefined", val |-> ""]
Null == [type |-> "null", val |-> ""]
True == [type |-> "boolean", val |-> "true"]
False == [type |-> "boolean", val |-> "false"]
Str(s) == [type |-> "string", val |-> s]
Num(s) == [type |-> "number", val |-> s]

Quote == "\""
Digits == {"0", "1", "2", "3", "4", "5", "6", "7", "8", "9"}

\* Mutant of JSONStringify: String(v), which leaves strings unquoted.
JSONStringifyUnquoted(v) == IF v.type \in {"null", "undefined"} THEN v.type ELSE v.val

\* Mutant of JSONStringify: undefined is written as null.
JSONStringifyNullForUndefined(v) ==
  CASE v.type = "boolean" -> v.val
    [] v.type = "number" -> IF v.val = "NaN" THEN "null" ELSE v.val
    [] v.type = "string" -> Quote \o v.val \o Quote
    [] OTHER -> "null"

\* JSON.stringify on the scalar values of the model.  A NaN number is
\* written as null; undefined has no JSON text and JSON.stringify returns
\* undefined, which Storage.setItem converts to the string "undefined".
JSONStringify(v) ==
  CASE v.type = "boolean" -> v.val
    [] v.type = "number" -> IF v.val = "NaN" THEN "null" ELSE v.val
    [] v.type = "string" -> Quote \o v.val \o Quote
    [] v.type = "null" -> "null"
    [] OTHER -> "undefined"

\* A JSON number of the model: decimal digits without a leading zero.
IsNumberText(t) ==
  /\ Len(t) > 0
  /\ \A i \in 1..Len(t) : SubSeq(t, i, i) \in Digits
  /\ (Len(t) > 1 => SubSeq(t, 1, 1) # "0")

\* A JSON string literal of the model: quoted, with no quote or escape inside.
IsStringText(t) ==
  /\ Len(t) >= 2
  /\ SubSeq(t, 1, 1) = Quote
  /\ SubSeq(t, Len(t), Len(t)) = Quote
  /\ \A i \in 2..(Len(t) - 1) : SubSeq(t, i, i) \notin {Quote, "\\"}

\* JSON.parse on scalar texts: ok = FALSE stands for the SyntaxError thrown.
JSONParse(t) ==
  CASE t = "true" -> [ok |-> TRUE, value |-> True]
    [] t = "false" -> [ok |-> TRUE, value |-> False]
    [] t = "null" -> [ok |-> TRUE, value |-> Null]
    [] IsNumberText(t) -> [ok |-> TRUE, value |-> Num(t)]
    [] IsStringText(t) -> [ok |-> TRUE, value |-> Str(SubSeq(t, 2, Len(t) - 1))]
    [] OTHER -> [ok |-> FALSE, value |-> Undefined]

(***************************************************************************)
(* Validators.  A validator is what the caller passes as `schema`: absent  *)
(* (present = FALSE), a function (call names what it does), or an object   *)
(* whose methods parse / validateSync / create each name what they do      *)
(* ("none": the property is not a function).                               *)
(***************************************************************************)
Behaviours == {"boolean", "string", "String"}
Methods == Behaviours \cup {"none"}

Validator(c, p, v, s) ==
  [present |-> TRUE, call |-> c, parse |-> p, validateSync |-> v, create |-> s]
NoSchema ==
  [present |-> FALSE, call |-> "none", parse |-> "none", validateSync |-> "none",
   create |-> "none"]

\* What a validator method does with its input: "boolean" and "string"
\* return an input of that type and throw on any other (z.boolean(),
\* z.string()); "String" converts every input to a string and never throws.
Invoke(m, x) ==
  CASE m = "boolean" ->
         IF x.type = "boolean" THEN [ok |-> TRUE, value |-> x]
         ELSE [ok |-> FALSE, value |-> Undefined]
    [] m = "string" ->
         IF x.type = "string" THEN [ok |-> TRUE, value |-> x]
         ELSE [ok |-> FALSE, value |-> Undefined]
    [] m = "String" ->
         [ok |-> TRUE,
          value |-> Str(IF x.type \in {"null", "undefined"} THEN x.type ELSE x.val)]
    [] OTHER -> [ok |-> FALSE, value |-> Undefined]

\* Mutant of getParseFn: validateSync is probed before parse.
getParseFnYupFirst(procedureParser) ==
  IF procedureParser.call # "none"
    THEN [ok |-> TRUE, shape |-> "function", fn |-> procedureParser.call]
  ELSE IF procedureParser.validateSync # "none"
    THEN [ok |-> TRUE, shape |-> "validateSync", fn |-> procedureParser.validateSync]
  ELSE IF procedureParser.parse # "none"
    THEN [ok |-> TRUE, shape |-> "parse", fn |-> procedureParser.parse]
  ELSE IF procedureParser.create # "none"
    THEN [ok |-> TRUE, shape |-> "create", fn |-> procedureParser.create]
  ELSE [ok |-> FALSE, shape |-> "none", fn |-> "none"]

\* getParseFn: the method the returned function runs, and through which
\* shape it was found; ok = FALSE stands for the Error thrown.
getParseFn(procedureParser) ==
  IF procedureParser.call # "none"
    THEN [ok |-> TRUE, shape |-> "function", fn |-> procedureParser.call]
  ELSE IF procedureParser.parse # "none"
    THEN [ok |-> TRUE, shape |-> "parse", fn |-> procedureParser.parse]
  ELSE IF procedureParser.validateSync # "none"
    THEN [ok |-> TRUE, shape |-> "validateSync", fn |-> procedureParser.validateSync]
  ELSE IF procedureParser.create # "none"
    THEN [ok |-> TRUE, shape |-> "create", fn |-> procedureParser.create]
  ELSE [ok |-> FALSE, shape |-> "none", fn |-> "none"]

\* Mutant of parse: the schema is never applied.
parseWithoutSchema(value, schema) ==
  IF value = "undefined" THEN Undefined
  ELSE LET result == JSONParse(value) IN
    IF ~result.ok THEN Undefined ELSE result.value

\* parse(value, schema) of the hooks: every error thrown inside the try
\* block (JSON.parse, getParseFn, the validator) is caught and undefined is
\* returned.
parse(value, schema) ==
  IF value = "undefined" THEN Undefined
  ELSE LET result == JSONParse(value) IN
    IF ~result.ok THEN Undefined
    ELSE IF schema.present
      THEN LET parser == getParseFn(schema) IN
        IF ~parser.ok THEN Undefined
        ELSE LET out == Invoke(parser.fn, result.value) IN
          IF out.ok THEN out.value ELSE Undefined
    ELSE result.value

(***************************************************************************)
(* Bindings.  Four hook calls of one document: two useLocalStorage         *)
(* bindings on the same key with different configs, a useLocalStorage      *)
(* binding on another key and a useSessionStorage binding.                 *)
(***************************************************************************)
Bindings == {1, 2, 3, 4}
Areas == {"local", "session"}
Keys == {"k1", "k2"}

\* StorageConfig of each binding; hook is the storage area of the hook called.
Config(b) ==
  CASE b = 1 -> [hook |-> "local", key |-> "k1", initialValue |-> True,
                 schema |-> Validator("none", "boolean", "none", "none"),
                 replace |-> TRUE]
    [] b = 2 -> [hook |-> "local", key |-> "k1", initialValue |-> False,
                 schema |-> NoSchema, replace |-> FALSE]
    [] b = 3 -> [hook |-> "local", key |-> "k2", initialValue |-> Str("hello"),
                 schema |-> Validator("String", "none", "none", "none"),
                 replace |-> FALSE]
    [] OTHER -> [hook |-> "session", key |-> "k1", initialValue |-> True,
                 schema |-> Validator("none", "none", "boolean", "none"),
                 replace |-> TRUE]

\* The keys of an area that some binding reads.
BoundKeys(area) == {Config(b).key : b \in {o \in Bindings : Config(o).hook = area}}

\* Mutant of CustomEvent: both hooks use one event type.
CustomEventShared(hook) == "local-storage"

\* The custom event a hook dispatches and listens to.
CustomEvent(hook) == IF hook = "local" THEN "local-storage" ELSE "session-storage"

\* Bound of the exploration: storage writes (by any document) per behaviour.
MaxWrites == 2

\* Values a caller passes to setValue (a string, undefined, and NaN, which
\* JSON.stringify writes as null), and the updater prev => !prev.
SetValues == {Str("hello"), Undefined, Num("NaN")}
SetStateActions ==
  {[fn |-> FALSE, value |-> v] : v \in SetValues} \cup {[fn |-> TRUE, value |-> Undefined]}

\* Texts another document leaves under a key of a storage area: under the
\* key two bindings share, text that is not JSON, a JSON string, a JSON
\* boolean and the empty text; under the other keys one text each.
ExtTexts(area, key) ==
  CASE area = "local" /\ key = "k1" -> {"{not json", Quote \o "hello" \o Quote, "false", ""}
    [] area = "local" -> {"false"}
    [] OTHER -> {"{not json"}

VARIABLES
  window,       \* TRUE: a browser; FALSE: typeof window === "undefined"
  storage,      \* storage[area]: the entries of the area, key -> text
  storedValue,  \* storedValue[b]: the React state, as the last setStoredValue left it
  rendered,     \* rendered[b]: the storedValue the last render of the hook returned
  phase,        \* phase[b]: "unused", "rendered" (useState ran), "mounted" (effects ran)
  listeners,    \* the bindings whose listeners are on window, in registration order
  pending,      \* the native storage events the browser has queued for this document
  stack,        \* listener invocations and returns of the dispatches in progress
  clock,        \* number of storage writes so far
  stamp,        \* stamp[area][key]: the clock value of the last write of the entry
  last,         \* what the last step did
  probe         \* a validator under test (SpecParser only)

vars ==
  <<window, storage, storedValue, rendered, phase, listeners, pending, stack, clock, stamp,
    last, probe>>

\* An invocation of handleStorageChange (kind "handle") for binding b with an
\* event of the given type and key, or the return of a readValue that
\* dispatched (kind "return") to its caller `to`.  src, by, seq, wkey, text
\* and value record the write the event announces: who wrote (src "setValue"
\* or "replace" of binding by, or "native"), at which clock value, under
\* which key, which text, encoding which value.  after: for a setValue, the
\* binding whose setValue wrote the same entry just before (the last step
\* handled the last notification of that write and nothing was written
\* since), 0 when there is none.
HandleFrame(b, type, hasKey, key, w) ==
  [kind |-> "handle", b |-> b, type |-> type, hasKey |-> hasKey, key |-> key,
   src |-> w.src, by |-> w.by, seq |-> w.seq, wkey |-> w.wkey, text |-> w.text,
   after |-> w.after,
   value |-> w.value, to |-> "none"]
ReturnFrame(b, to) ==
  [kind |-> "return", b |-> b, type |-> "none", hasKey |-> FALSE, key |-> "",
   src |-> "none", by |-> 0, seq |-> 0, wkey |-> "", text |-> "", after |-> 0,
   value |-> Undefined, to |-> to]
NoFrame == ReturnFrame(0, "none")
WriteOf(src, by, seq, wkey, text, value) ==
  [src |-> src, by |-> by, seq |-> seq, wkey |-> wkey, text |-> text, value |-> value,
   after |-> IF /\ src = "setValue"
                /\ last.op \in {"handle", "ignore"}
                /\ last.event.src = "setValue"
                /\ last.event.wkey = wkey
                /\ Config(last.event.by).hook = Config(by).hook
                /\ last.event.seq = clock
             THEN last.event.by ELSE 0]
NativeWrite == WriteOf("native", 0, 0, "", "", Undefined)

\* What a step did: the operation and its binding, what getItem gave ("text",
\* "null" for an absent or empty entry, "throw", "none": not called), whether
\* an error left the operation, whether it wrote and dispatched, whether it
\* ran to its end, and the event handled.  clean: no storage call has
\* thrown since the call in progress (a render, an effect, a setValue or the
\* browser firing a storage event) began; the listeners a dispatch runs are
\* part of the call that dispatched.
Did(op, b, got, threw, wrote, ok, event) ==
  [op |-> op, b |-> b, got |-> got, threw |-> threw, wrote |-> wrote,
   notified |-> wrote, ok |-> ok, event |-> event,
   clean |-> /\ got # "throw"
             /\ ~(op = "setValue" /\ ~ok /\ window)
             /\ (op \in {"handle", "ignore", "return"} => last.clean)]
NoLast == Did("none", 0, "none", FALSE, FALSE, FALSE, NoFrame)
NoProbe ==
  [stage |-> "none", validator |-> NoSchema, input |-> Undefined, ok |-> FALSE,
   shape |-> "none", fn |-> "none", result |-> [ok |-> FALSE, value |-> Undefined],
   text |-> "", error |-> "none"]

HasItem(area, key) == key \in DOMAIN storage[area]

\* Mutant of SetItem: the other entries of the area are dropped.
SetItemAlone(entries, key, text) == [k \in {key} |-> text]

\* Storage.setItem(key, text) on the entries of one area.
SetItem(entries, key, text) ==
  [k \in DOMAIN entries \cup {key} |-> IF k = key THEN text ELSE entries[k]]

\* The bindings whose effects have run: the re-read and the two
\* useEventListener registrations.
Mounted == {b \in Bindings : phase[b] = "mounted"}

\* The bindings listening to an event type, in registration order: every
\* mounted binding listens to the native "storage" event and to the custom
\* event of its own hook.
ListenersOf(type) ==
  LET Listens(b) == type = "storage" \/ type = CustomEvent(Config(b).hook) IN
  SelectSeq(listeners, Listens)

\* window.dispatchEvent(event): one invocation of handleStorageChange per
\* listener, in registration order (the order the bindings mounted in).
DispatchEvent(type, hasKey, key, w) ==
  LET order == ListenersOf(type) IN
  [i \in 1..Len(order) |-> HandleFrame(order[i], type, hasKey, key, w)]

\* How the storage calls of one readValue fail: not at all, getItem throws,
\* or getItem and the setItem of the catch block both throw.
Failures == {"none", "get", "getset"}

\* Mutant of readValue: an entry that parse cannot decode is handled as a
\* failed read (the catch block runs).
readValueReplacingBroken(b, fail) ==
  LET c == Config(b)
      broken == /\ fail = "none"
                /\ HasItem(c.hook, c.key)
                /\ storage[c.hook][c.key] \notin {"", "undefined"}
                /\ parse(storage[c.hook][c.key], c.schema) = Undefined
  IN
  IF ~window
    THEN [kind |-> "value", value |-> c.initialValue, got |-> "none"]
  ELSE IF fail = "none" /\ ~broken
    THEN IF HasItem(c.hook, c.key) /\ storage[c.hook][c.key] # ""
      THEN [kind |-> "value", value |-> parse(storage[c.hook][c.key], c.schema),
            got |-> "text"]
      ELSE [kind |-> "value", value |-> c.initialValue, got |-> "null"]
  ELSE IF ~c.replace
    THEN [kind |-> "value", value |-> c.initialValue, got |-> IF broken THEN "text" ELSE "throw"]
  ELSE IF fail = "getset"
    THEN [kind |-> "throw", value |-> Undefined, got |-> "throw"]
  ELSE [kind |-> "replace", value |-> c.initialValue, got |-> IF broken THEN "text" ELSE "throw"]

\* Mutant of readValue: no test of typeof window before the storage access.
readValueUnguarded(b, fail) ==
  LET c == Config(b) IN
  IF fail = "none"
    THEN IF HasItem(c.hook, c.key) /\ storage[c.hook][c.key] # ""
      THEN [kind |-> "value", value |-> parse(storage[c.hook][c.key], c.schema),
            got |-> "text"]
      ELSE [kind |-> "value", value |-> c.initialValue, got |-> "null"]
  ELSE IF ~c.replace
    THEN [kind |-> "value", value |-> c.initialValue, got |-> "throw"]
  ELSE IF fail = "getset"
    THEN [kind |-> "throw", value |-> Undefined, got |-> "throw"]
  ELSE [kind |-> "replace", value |-> c.initialValue, got |-> "throw"]

\* readValue of binding b.  kind "value": returns value; "replace": the catch
\* block writes the initial value, dispatches and then returns it; "throw":
\* the setItem of the catch block threw and the error leaves readValue.
readValue(b, fail) ==
  LET c == Config(b) IN
  IF ~window
    THEN [kind |-> "value", value |-> c.initialValue, got |-> "none"]
  ELSE IF fail = "none"
    THEN IF HasItem(c.hook, c.key) /\ storage[c.hook][c.key] # ""
      THEN [kind |-> "value", value |-> parse(storage[c.hook][c.key], c.schema),
            got |-> "text"]
      ELSE [kind |-> "value", value |-> c.initialValue, got |-> "null"]
  ELSE IF ~c.replace
    THEN [kind |-> "value", value |-> c.initialValue, got |-> "throw"]
  ELSE IF fail = "getset"
    THEN [kind |-> "throw", value |-> Undefined, got |-> "throw"]
  ELSE [kind |-> "replace", value |-> c.initialValue, got |-> "throw"]

\* The phase of a binding after the caller `to` of readValue has finished.
Advance(b, to) ==
  CASE to = "render" -> [phase EXCEPT ![b] = "rendered"]
    [] to = "effect" -> [phase EXCEPT ![b] = "mounted"]
    [] OTHER -> phase

\* The listeners on window after the caller `to` of readValue has finished:
\* the useEventListener effects follow the effect that reads.
Registered(b, to) == IF to = "effect" THEN Append(listeners, b) ELSE listeners

\* What the hook returns after its caller `to` has stored value: the first
\* render returns the initial state, any later state waits for a re-render.
Returned(b, to, value) == IF to = "render" THEN [rendered EXCEPT ![b] = value] ELSE rendered

\* setStoredValue(readValue()) (or useState(readValue)) called from `to`
\* because of `event`, with `rest` the invocations still to run afterwards.
Read(b, to, fail, event, rest) ==
  LET c == Config(b)
      r == readValue(b, fail)
      text == JSONStringify(c.initialValue)
  IN
  /\ fail # "none" => window
  /\ fail = "getset" => c.replace
  /\ last' = Did(to, b, r.got, r.kind = "throw", r.kind = "replace",
                 r.kind # "throw", event)
  /\ CASE r.kind = "value" ->
            /\ storedValue' = [storedValue EXCEPT ![b] = r.value]
            /\ rendered' = Returned(b, to, r.value)
            /\ phase' = Advance(b, to)
            /\ listeners' = Registered(b, to)
            /\ stack' = rest
            /\ UNCHANGED <<storage, clock, stamp>>
       [] r.kind = "throw" ->
            /\ stack' = rest
            /\ UNCHANGED <<storedValue, rendered, phase, listeners, storage, clock, stamp>>
       [] OTHER ->
            /\ clock < MaxWrites
            /\ clock' = clock + 1
            /\ storage' = [storage EXCEPT ![c.hook] = SetItem(@, c.key, text)]
            /\ stamp' = [stamp EXCEPT ![c.hook][c.key] = clock + 1]
            /\ stack' = DispatchEvent(CustomEvent(c.hook), FALSE, "",
                          WriteOf("replace", b, clock + 1, c.key, text, c.initialValue))
                          \o <<ReturnFrame(b, to)>> \o rest
            /\ UNCHANGED <<storedValue, rendered, phase, listeners>>

Init ==
  /\ window \in BOOLEAN
  /\ storage = [a \in Areas |-> <<>>]
  /\ storedValue = [b \in Bindings |-> Undefined]
  /\ rendered = [b \in Bindings |-> Undefined]
  /\ phase = [b \in Bindings |-> "unused"]
  /\ listeners = <<>>
  /\ pending = <<>>
  /\ stack = <<>>
  /\ clock = 0
  /\ stamp = [a \in Areas |-> [k \in Keys |-> 0]]
  /\ last = NoLast
  /\ probe = NoProbe

\* The first render of the hook: useState(readValue).
Render(b) ==
  /\ stack = <<>>
  /\ phase[b] = "unused"
  /\ \E fail \in Failures : Read(b, "render", fail, NoFrame, <<>>)
  /\ UNCHANGED <<window, pending, probe>>

\* The effects of the first commit: setStoredValue(readValue()), then the
\* two useEventListener registrations.
Effect(b) ==
  /\ window
  /\ stack = <<>>
  /\ phase[b] = "rendered"
  /\ \E fail \in Failures : Read(b, "effect", fail, NoFrame, <<>>)
  /\ UNCHANGED <<window, pending, probe>>

Truthy(v) ==
  ~ \/ v.type \in {"undefined", "null"}
    \/ v = False
    \/ v = Str("")
    \/ v = Num("0")
    \/ v = Num("NaN")

\* value instanceof Function ? value(storedValue) : value, with the updater
\* prev => !prev; storedValue is the one the last render returned.
Resolve(action, prev) ==
  IF action.fn THEN (IF Truthy(prev) THEN False ELSE True) ELSE action.value

\* Mutant of Written: the event is dispatched but the entry is not stored.
WrittenNowhere(entries, key, text) == entries

\* The entries of an area after setValue's setItem.
Written(entries, key, text) == SetItem(entries, key, text)

\* Mutant of Caught: the state was set before the write was tried.
CaughtAfterStateSet(b, newValue) == [storedValue EXCEPT ![b] = newValue]

\* The React state after setValue's catch block: setStoredValue was not reached.
Caught(b, newValue) == storedValue

\* setValue(value) of binding b; setThrows: setItem throws.  Without window
\* the access to window.localStorage throws inside the try block.  The
\* setter exists once the hook has rendered; it resolves an updater with the
\* storedValue of the last render, which an earlier call of the same batch
\* has not changed yet.
SetValue(b, action, setThrows) ==
  LET c == Config(b)
      newValue == Resolve(action, rendered[b])
      text == JSONStringify(newValue)
  IN
  /\ stack = <<>>
  /\ phase[b] # "unused"
  /\ setThrows => window
  /\ IF ~window \/ setThrows
       THEN /\ last' = Did("setValue", b, "none", FALSE, FALSE, FALSE, NoFrame)
            /\ storedValue' = Caught(b, newValue)
            /\ UNCHANGED <<storage, stack, clock, stamp>>
       ELSE /\ clock < MaxWrites
            /\ clock' = clock + 1
            /\ storage' = [storage EXCEPT ![c.hook] = Written(@, c.key, text)]
            /\ stamp' = [stamp EXCEPT ![c.hook][c.key] = clock + 1]
            /\ storedValue' = [storedValue EXCEPT ![b] = newValue]
            /\ stack' = DispatchEvent(CustomEvent(c.hook), FALSE, "",
                          WriteOf("setValue", b, clock + 1, c.key, text, newValue))
            /\ last' = Did("setValue", b, "none", FALSE, TRUE, TRUE, NoFrame)
  /\ UNCHANGED <<window, rendered, phase, listeners, pending, probe>>

\* Mutant of Ignores: every event that has a key is ignored.
IgnoresKeyed(b, event) == event.hasKey

\* Mutant of Ignores: an event without a key is ignored as well.
IgnoresUnkeyed(b, event) == ~event.hasKey \/ event.key # Config(b).key

\* The guard of handleStorageChange: the event has a key and it is not the
\* binding's key.
Ignores(b, event) == event.hasKey /\ Truthy(Str(event.key)) /\ event.key # Config(b).key

\* handleStorageChange(event) of the listener on top of the stack.
HandleStorageChange ==
  /\ stack # <<>>
  /\ Head(stack).kind = "handle"
  /\ LET f == Head(stack) IN
     IF Ignores(f.b, f)
       THEN /\ stack' = Tail(stack)
            /\ last' = Did("ignore", f.b, "none", FALSE, FALSE, TRUE, f)
            /\ UNCHANGED <<storage, storedValue, rendered, phase, listeners, clock, stamp>>
       ELSE \E fail \in Failures : Read(f.b, "handle", fail, f, Tail(stack))
  /\ UNCHANGED <<window, pending, probe>>

\* A readValue whose catch block dispatched returns initialValue to its caller.
Return ==
  /\ stack # <<>>
  /\ Head(stack).kind = "return"
  /\ LET f == Head(stack) IN
     /\ storedValue' = [storedValue EXCEPT ![f.b] = Config(f.b).initialValue]
     /\ rendered' = Returned(f.b, f.to, Config(f.b).initialValue)
     /\ phase' = Advance(f.b, f.to)
     /\ listeners' = Registered(f.b, f.to)
     /\ stack' = Tail(stack)
     /\ last' = Did("return", f.b, "none", FALSE, FALSE, TRUE, f)
  /\ UNCHANGED <<storage, clock, stamp, window, pending, probe>>

\* Another document of the origin changes a storage area: setItem(key, text)
\* (how = "set") or clear() (how = "clear"); the browser queues the native
\* "storage" event for this document, with the key written or with no key
\* for clear().  Only the entries some binding reads (BoundKeys) are kept in
\* the model; a write under any other key changes none of them.  The write
\* is a task of its own: it does not fall inside a dispatch of this document.
OtherDocument(area, how, key, text) ==
  /\ window
  /\ stack = <<>>
  /\ clock < MaxWrites
  /\ clock' = clock + 1
  /\ storage' =
       CASE how = "clear" -> [storage EXCEPT ![area] = <<>>]
         [] key \in BoundKeys(area) -> [storage EXCEPT ![area] = SetItem(@, key, text)]
         [] OTHER -> storage
  /\ stamp' =
       CASE how = "clear" -> [stamp EXCEPT ![area] = [k \in Keys |-> clock + 1]]
         [] key \in BoundKeys(area) -> [stamp EXCEPT ![area][key] = clock + 1]
         [] OTHER -> stamp
  /\ pending' = Append(pending, [hasKey |-> how # "clear", key |-> key])
  /\ last' = Did("write", 0, "none", FALSE, TRUE, TRUE, NoFrame)
  /\ UNCHANGED <<window, storedValue, rendered, phase, listeners, stack, probe>>

\* The browser fires the oldest queued storage event on window: the
\* listeners registered by now are called.
StorageEvent ==
  /\ stack = <<>>
  /\ pending # <<>>
  /\ stack' = DispatchEvent("storage", Head(pending).hasKey, Head(pending).key, NativeWrite)
  /\ pending' = Tail(pending)
  /\ last' = Did("storage", 0, "none", FALSE, FALSE, TRUE, NoFrame)
  /\ UNCHANGED <<window, storage, storedValue, rendered, phase, listeners, clock, stamp, probe>>

\* React renders again the components whose state changed: every hook call
\* returns the state it has by now.  The updates made since the last render
\* are applied in one pass.
Rerender ==
  /\ stack = <<>>
  /\ rendered # storedValue
  /\ rendered' = storedValue
  /\ last' = Did("rerender", 0, "none", FALSE, FALSE, TRUE, NoFrame)
  /\ UNCHANGED
       <<window, storage, storedValue, phase, listeners, pending, stack, clock, stamp, probe>>

\* The document with the four hook calls.
Next ==
  \/ \E b \in Bindings : Render(b)
  \/ \E b \in Bindings : Effect(b)
  \/ \E b \in Bindings, action \in SetStateActions, t \in BOOLEAN : SetValue(b, action, t)
  \/ HandleStorageChange
  \/ Return
  \/ Rerender
  \/ \E area \in Areas, key \in Keys :
       \E text \in ExtTexts(area, key) :
         key \in BoundKeys(area) /\ OtherDocument(area, "set", key, text)
  \/ \E area \in Areas : OtherDocument(area, "set", "", "")
  \/ \E area \in Areas : OtherDocument(area, "clear", "", "")
  \/ StorageEvent

Spec == Init /\ [][Next]_vars

(***************************************************************************)
(* A document with two hook calls, bindings 1 and 2: both read the entry   *)
(* k1 of localStorage, one with a schema and replace, one with neither.    *)
(* Their renders, effects, re-renders and setValue calls and the writes of *)
(* other documents come in any order, as in Next.  (With the four hook     *)
(* calls Next has several million states at two writes; the claims are     *)
(* checked for this document and for the documents below.)                 *)
(***************************************************************************)
Pair == {1, 2}

NextPair ==
  \/ \E b \in Pair : Render(b)
  \/ \E b \in Pair : Effect(b)
  \/ \E b \in Pair, action \in SetStateActions, t \in BOOLEAN : SetValue(b, action, t)
  \/ HandleStorageChange
  \/ Return
  \/ Rerender
  \/ \E area \in Areas, key \in Keys :
       \E text \in ExtTexts(area, key) :
         key \in BoundKeys(area) /\ OtherDocument(area, "set", key, text)
  \/ \E area \in Areas : OtherDocument(area, "set", "", "")
  \/ \E area \in Areas : OtherDocument(area, "clear", "", "")
  \/ StorageEvent

SpecPair == Init /\ [][NextPair]_vars

(***************************************************************************)
(* The same document with a storage that never throws: the steps of        *)
(* NextPair in which no getItem and no setItem call throws.  readValue     *)
(* then never reaches its catch block, so no call of it dispatches and     *)
(* returns later.                                                          *)
(***************************************************************************)
NextNoFailure ==
  \/ \E b \in Pair : Render(b) /\ last'.clean
  \/ \E b \in Pair : Effect(b) /\ last'.clean
  \/ \E b \in Pair, action \in SetStateActions :
       SetValue(b, action, FALSE) /\ last'.clean
  \/ HandleStorageChange /\ last'.clean
  \/ Rerender
  \/ \E area \in Areas, key \in Keys :
       \E text \in ExtTexts(area, key) :
         key \in BoundKeys(area) /\ OtherDocument(area, "set", key, text)
  \/ \E area \in Areas : OtherDocument(area, "set", "", "")
  \/ \E area \in Areas : OtherDocument(area, "clear", "", "")
  \/ StorageEvent

SpecNoFailure == Init /\ [][NextNoFailure]_vars

(***************************************************************************)
(* A document alone on its origin with three hook calls, bindings 1, 3 and *)
(* 4: two keys of localStorage and one of sessionStorage.  Their renders,  *)
(* effects, re-renders and setValue calls come in any order, as in Next;   *)
(* no other document writes.                                               *)
(***************************************************************************)
Trio == {1, 3, 4}

NextTrio ==
  \/ \E b \in Trio : Render(b)
  \/ \E b \in Trio : Effect(b)
  \/ \E b \in Trio, action \in SetStateActions, t \in BOOLEAN : SetValue(b, action, t)
  \/ HandleStorageChange
  \/ Return
  \/ Rerender

SpecTrio == Init /\ [][NextTrio]_vars

(***************************************************************************)
(* A document whose four hook calls have mounted, in the order 1, 2, 3, 4, *)
(* over empty storage areas: every step that follows the mount.            *)
(***************************************************************************)
InitMounted ==
  /\ window = TRUE
  /\ storage = [a \in Areas |-> <<>>]
  /\ storedValue = [b \in Bindings |-> Config(b).initialValue]
  /\ rendered = [b \in Bindings |-> Config(b).initialValue]
  /\ phase = [b \in Bindings |-> "mounted"]
  /\ listeners = <<1, 2, 3, 4>>
  /\ pending = <<>>
  /\ stack = <<>>
  /\ clock = 0
  /\ stamp = [a \in Areas |-> [k \in Keys |-> 0]]
  /\ last = NoLast
  /\ probe = NoProbe

NextMounted ==
  \/ \E b \in Bindings, action \in SetStateActions, t \in BOOLEAN : SetValue(b, action, t)
  \/ HandleStorageChange
  \/ Return
  \/ Rerender
  \/ \E area \in Areas, key \in Keys :
       \E text \in ExtTexts(area, key) :
         key \in BoundKeys(area) /\ OtherDocument(area, "set", key, text)
  \/ \E area \in Areas : OtherDocument(area, "set", "", "")
  \/ \E area \in Areas : OtherDocument(area, "clear", "", "")
  \/ StorageEvent

SpecMounted == InitMounted /\ [][NextMounted]_vars

(***************************************************************************)
(* One native storage event on its own: the four bindings are mounted over *)
(* empty storage areas and expose their initial values, another document   *)
(* has written under a key no binding reads (or cleared an empty area),    *)
(* and the browser has dispatched the event.  The listeners run, with the  *)
(* dispatches and returns their reads cause.                               *)
(***************************************************************************)
InitChain ==
  /\ window = TRUE
  /\ storage = [a \in Areas |-> <<>>]
  /\ storedValue = [b \in Bindings |-> Config(b).initialValue]
  /\ rendered = [b \in Bindings |-> Config(b).initialValue]
  /\ phase = [b \in Bindings |-> "mounted"]
  /\ listeners = <<1, 2, 3, 4>>
  /\ pending = <<>>
  /\ clock = 0
  /\ stamp = [a \in Areas |-> [k \in Keys |-> 0]]
  /\ last = Did("storage", 0, "none", FALSE, FALSE, TRUE, NoFrame)
  /\ probe = NoProbe
  /\ \E e \in {<<TRUE, "">>, <<TRUE, "k2">>, <<FALSE, "">>} :
       stack = DispatchEvent("storage", e[1], e[2], NativeWrite)

NextChain == HandleStorageChange \/ Return

SpecChain == InitChain /\ [][NextChain]_vars

(***************************************************************************)
(* getParseFn on its own: a validator of any shape and an input are given, *)
(* getParseFn is called, and the function it returns is called.            *)
(***************************************************************************)
Validators == {Validator(c, p, v, s) : c \in Methods, p \in Methods, v \in Methods, s \in Methods}
Inputs == {True, Str("hello"), Undefined, Null}

InitParser ==
  /\ window = TRUE
  /\ storage = [a \in Areas |-> <<>>]
  /\ storedValue = [b \in Bindings |-> Undefined]
  /\ rendered = [b \in Bindings |-> Undefined]
  /\ phase = [b \in Bindings |-> "unused"]
  /\ listeners = <<>>
  /\ pending = <<>>
  /\ stack = <<>>
  /\ clock = 0
  /\ stamp = [a \in Areas |-> [k \in Keys |-> 0]]
  /\ last = NoLast
  /\ probe \in {[NoProbe EXCEPT !.stage = "given", !.validator = v, !.input = x] :
                  v \in Validators, x \in Inputs}

\* const fn = getParseFn(validator)
GetParseFn ==
  /\ probe.stage = "given"
  /\ LET g == getParseFn(probe.validator) IN
     probe' = [probe EXCEPT !.stage = IF g.ok THEN "resolved" ELSE "threw",
                            !.ok = g.ok, !.shape = g.shape, !.fn = g.fn]
  /\ UNCHANGED
       <<window, storage, storedValue, rendered, phase, listeners, pending, stack, clock, stamp,
         last>>

\* fn(input)
CallParseFn ==
  /\ probe.stage = "resolved"
  /\ probe' = [probe EXCEPT !.stage = "called", !.result = Invoke(probe.fn, probe.input)]
  /\ UNCHANGED
       <<window, storage, storedValue, rendered, phase, listeners, pending, stack, clock, stamp,
         last>>

NextParser == GetParseFn \/ CallParseFn

SpecParser == InitParser /\ [][NextParser]_vars

(***************************************************************************)
(* The codec on its own: a value is encoded as setValue encodes it         *)
(* (JSON.stringify, then setItem's conversion to a string) and the text is *)
(* decoded by parse with a schema of any shape, or with none.              *)
(***************************************************************************)
CodecInputs ==
  {True, False, Str("hello"), Str("undefined"), Str(""), Num("7"), Num("NaN"),
   Null, Undefined}

\* The error thrown inside the try block of parse, which its catch block
\* logs: "syntax" from JSON.parse, "shape" from getParseFn, "validation" from
\* the validator, "none" when the block returns.
parseError(value, schema) ==
  IF value = "undefined" THEN "none"
  ELSE IF ~JSONParse(value).ok THEN "syntax"
  ELSE IF ~schema.present THEN "none"
  ELSE IF ~getParseFn(schema).ok THEN "shape"
  ELSE IF ~Invoke(getParseFn(schema).fn, JSONParse(value).value).ok THEN "validation"
  ELSE "none"

InitCodec ==
  /\ window = TRUE
  /\ storage = [a \in Areas |-> <<>>]
  /\ storedValue = [b \in Bindings |-> Undefined]
  /\ rendered = [b \in Bindings |-> Undefined]
  /\ phase = [b \in Bindings |-> "unused"]
  /\ listeners = <<>>
  /\ pending = <<>>
  /\ stack = <<>>
  /\ clock = 0
  /\ stamp = [a \in Areas |-> [k \in Keys |-> 0]]
  /\ last = NoLast
  /\ probe \in {[NoProbe EXCEPT !.stage = "value", !.validator = v, !.input = x] :
                  v \in Validators \cup {NoSchema}, x \in CodecInputs}

\* JSON.stringify(newValue), as passed to setItem.
Encode ==
  /\ probe.stage = "value"
  /\ probe' = [probe EXCEPT !.stage = "text", !.text = JSONStringify(probe.input)]
  /\ UNCHANGED
       <<window, storage, storedValue, rendered, phase, listeners, pending, stack, clock, stamp,
         last>>

\* parse(item, schema): the call returns (ok) whatever was thrown inside.
Decode ==
  /\ probe.stage = "text"
  /\ probe' = [probe EXCEPT !.stage = "decoded",
                            !.error = parseError(probe.text, probe.validator),
                            !.result = [ok |-> TRUE,
                                        value |-> parse(probe.text, probe.validator)]]
  /\ UNCHANGED
       <<window, storage, storedValue, rendered, phase, listeners, pending, stack, clock, stamp,
         last>>

NextCodec == Encode \/ Decode

SpecCodec == InitCodec /\ [][NextCodec]_vars

(***************************************************************************)
(* Claims.                                                                 *)
(***************************************************************************)
ReadOps == {"render", "effect", "handle"}

\* The entry under the key of binding b, when there is one.
Entry(b) == storage[Config(b).hook][Config(b).key]

\* Text that JSON.parse rejects (the "undefined" text is never parsed).
Malformed(t) == t # "undefined" /\ ~JSONParse(t).ok

\* The validator of binding b accepts x / returns x as it is.
Accepts(b, x) ==
  LET g == getParseFn(Config(b).schema) IN g.ok /\ Invoke(g.fn, x).ok
SchemaResult(b, x) == Invoke(getParseFn(Config(b).schema).fn, x).value
KeepsValue(b, x) == ~Config(b).schema.present \/ (Accepts(b, x) /\ SchemaResult(b, x) = x)

\* The JSON values: booleans, strings, null and the numbers other than NaN,
\* the values that JSON.parse(JSON.stringify(x)) is specified to give back.
RoundTrips(x) ==
  \/ x.type \in {"boolean", "string", "null"}
  \/ x.type = "number" /\ x.val # "NaN"

\* The last step was binding b handling the event of a setValue of binding a.
HandledSetValueOf(a, b) ==
  /\ last.op = "handle"
  /\ last.b = b
  /\ last.event.src = "setValue"
  /\ last.event.by = a

\* The read of the last step got the entry from storage, and the entry is
\* still the one the event it handled announced.
ReadAnnouncedEntry(b) ==
  /\ last.got # "throw"
  /\ stamp[Config(b).hook][Config(b).key] = last.event.seq

\* C1 (as claimed): a read that finds malformed text under the binding's key
\* yields initialValue as the exposed value and does not throw.
C1_MalformedReadYieldsInitial ==
  \A b \in Bindings :
    (last.op \in ReadOps /\ last.b = b /\ last.got = "text" /\ Malformed(Entry(b)))
      => (~last.threw /\ storedValue[b] = Config(b).initialValue)

\* C2 (as claimed): with a schema, a read that finds valid JSON text whose
\* value the schema rejects yields initialValue as the exposed value.
C2_RejectedReadYieldsInitial ==
  \A b \in Bindings :
    (/\ last.op \in ReadOps /\ last.b = b /\ last.got = "text"
     /\ Config(b).schema.present
     /\ Entry(b) # "undefined"
     /\ JSONParse(Entry(b)).ok
     /\ getParseFn(Config(b).schema).ok
     /\ ~Accepts(b, JSONParse(Entry(b)).value))
      => storedValue[b] = Config(b).initialValue

\* C3 (as claimed): once binding B has been delivered the notification of a
\* successful setValue of another binding A of the same area and key, B's
\* exposed value is the value A set.
C3_PeerExposesWrittenValue ==
  \A a, b \in Bindings :
    (/\ a # b
     /\ Config(a).hook = Config(b).hook
     /\ Config(a).key = Config(b).key
     /\ HandledSetValueOf(a, b))
      => storedValue[b] = last.event.value

\* C3 (amended): the same, provided B's storage read did not throw, no later
\* write replaced the entry, the value is undefined or survives the JSON
\* round trip, and B has no schema or B's schema returns the value unchanged.
C3_PeerExposesWrittenValueWhenKept ==
  \A a, b \in Bindings :
    (/\ a # b
     /\ Config(a).hook = Config(b).hook
     /\ Config(a).key = Config(b).key
     /\ HandledSetValueOf(a, b)
     /\ ReadAnnouncedEntry(b)
     /\ last.event.value = Undefined \/ RoundTrips(last.event.value)
     /\ KeepsValue(b, last.event.value))
      => storedValue[b] = last.event.value

C3_Witness ==
  /\ HandledSetValueOf(1, 2)
  /\ ReadAnnouncedEntry(2)
  /\ last.event.value = Str("hello")
  /\ storedValue[2] = Str("hello")
  /\ storedValue[2] # Config(2).initialValue

\* C4 (as claimed): after a successful setValue(v) of a value v that survives
\* the JSON round trip, the binding's next read yields v without a schema, and
\* the schema's result for v with a schema that accepts v.
C4_ReadAfterWriteYieldsValue ==
  \A b \in Bindings :
    (HandledSetValueOf(b, b) /\ RoundTrips(last.event.value)) =>
      /\ ~Config(b).schema.present => storedValue[b] = last.event.value
      /\ (Config(b).schema.present /\ Accepts(b, last.event.value))
           => storedValue[b] = SchemaResult(b, last.event.value)

\* C4 (amended): the same, provided the read's storage access did not throw
\* and no later write replaced the entry.
C4_ReadAfterWriteYieldsValueWhenRead ==
  \A b \in Bindings :
    (/\ HandledSetValueOf(b, b)
     /\ RoundTrips(last.event.value)
     /\ ReadAnnouncedEntry(b)) =>
      /\ ~Config(b).schema.present => storedValue[b] = last.event.value
      /\ (Config(b).schema.present /\ Accepts(b, last.event.value))
           => storedValue[b] = SchemaResult(b, last.event.value)

C4_Witness ==
  /\ HandledSetValueOf(3, 3)
  /\ ReadAnnouncedEntry(3)
  /\ last.event.value = False
  /\ storedValue[3] = Str("false")

\* C5 (as claimed): no read and no setter call ends with a thrown error.
C5_NoErrorReachesCaller == ~last.threw

\* C6: a setValue whose storage write throws (or that runs without window)
\* leaves every exposed value and both storage areas as they were and
\* dispatches nothing.
C6_FailedSetValueChangesNothing ==
  [][(last'.op = "setValue" /\ ~last'.ok)
       => (/\ storedValue' = storedValue
           /\ storage' = storage
           /\ stack' = <<>>
           /\ ~last'.wrote
           /\ ~last'.notified)]_vars

C6_Witness ==
  /\ last.op = "setValue"
  /\ ~last.ok
  /\ window
  /\ Mounted = Pair
  /\ rendered # storedValue
  /\ HasItem("local", "k1")

\* C7 (as claimed): a read whose storage access fails writes the encoded
\* initialValue and notifies when replace is true, writes nothing and does
\* not notify otherwise, and yields initialValue either way.
C7_ReadFailureFallsBack ==
  /\ \A b \in Bindings :
       (last.op \in ReadOps /\ last.b = b /\ last.got = "throw") =>
         /\ ~last.threw
         /\ Config(b).replace =>
              /\ last.wrote /\ last.notified
              /\ HasItem(Config(b).hook, Config(b).key)
              /\ Entry(b) = JSONStringify(Config(b).initialValue)
         /\ ~Config(b).replace =>
              /\ ~last.wrote /\ ~last.notified
              /\ storedValue[b] = Config(b).initialValue
  /\ last.op = "return" => storedValue[last.b] = Config(last.b).initialValue

\* C8 (as claimed): a binding ignores a native storage event that carries a
\* key other than its own, and re-reads on one that carries its key or none.
C8_NativeEventKeyFilter ==
  \A b \in Bindings :
    (last.op \in {"handle", "ignore"} /\ last.b = b /\ last.event.type = "storage") =>
      IF last.event.hasKey /\ last.event.key # Config(b).key
        THEN last.op = "ignore"
        ELSE last.op = "handle"

\* C9: every pending notification of a write by a hook finds its write done:
\* the entry was written at or after the write it announces, and while no
\* later write replaced it, it holds the encoding of the value written.
C9_WriteBeforeNotify ==
  \A i \in 1..Len(stack) :
    LET f == stack[i]
        a == IF f.type = "local-storage" THEN "local" ELSE "session"
    IN
    (f.kind = "handle" /\ f.src \in {"setValue", "replace"}) =>
      /\ f.text = JSONStringify(f.value)
      /\ stamp[a][f.wkey] >= f.seq
      /\ stamp[a][f.wkey] = f.seq => (HasItem(a, f.wkey) /\ storage[a][f.wkey] = f.text)

C9_Witness ==
  \E i \in 1..Len(stack) :
    /\ stack[i].kind = "handle"
    /\ stack[i].src = "setValue"
    /\ stack[i].type = "local-storage"
    /\ stamp["local"][stack[i].wkey] > stack[i].seq

\* C10: the function getParseFn returns runs the first of the validator
\* itself, parse, validateSync and create that is a function, and getParseFn
\* throws when none is.
C10_FirstShapeWins ==
  LET p == probe.validator
      x == probe.input
      ran(m) == probe.stage = "called" /\ probe.result = Invoke(m, x)
  IN
  probe.stage \in {"called", "threw"} =>
    /\ p.call # "none" => ran(p.call)
    /\ (p.call = "none" /\ p.parse # "none") => ran(p.parse)
    /\ (p.call = "none" /\ p.parse = "none" /\ p.validateSync # "none")
         => ran(p.validateSync)
    /\ (p.call = "none" /\ p.parse = "none" /\ p.validateSync = "none"
          /\ p.create # "none") => ran(p.create)
    /\ (p.call = "none" /\ p.parse = "none" /\ p.validateSync = "none"
          /\ p.create = "none") => probe.stage = "threw"

C10_Witness ==
  /\ probe.stage = "called"
  /\ probe.validator.call = "none"
  /\ probe.validator.parse = "boolean"
  /\ probe.validator.validateSync = "String"
  /\ probe.input = True
  /\ probe.result = [ok |-> TRUE, value |-> True]
\* C11 (as claimed): decoding a present entry with a schema that has none of
\* the four validator shapes ends with the shape error thrown to the caller.
C11_ShapeErrorReachesCaller ==
  (/\ probe.stage = "decoded"
   /\ probe.validator.present
   /\ ~getParseFn(probe.validator).ok
   /\ probe.text # "undefined"
   /\ JSONParse(probe.text).ok)
    => ~probe.result.ok
\* C14: without a schema, decoding the encoding of a JSON value gives the
\* value back; undefined is encoded as the text "undefined", and that text
\* decodes to undefined with any schema, with no error raised on the way.
C14_CodecRoundTrip ==
  /\ (probe.stage \in {"text", "decoded"} /\ probe.input = Undefined)
       => probe.text = "undefined"
  /\ probe.stage = "decoded" =>
       /\ (~probe.validator.present /\ RoundTrips(probe.input))
            => (probe.result.ok /\ probe.result.value = probe.input)
       /\ probe.input = Undefined
            => (probe.result.ok /\ probe.result.value = Undefined /\ probe.error = "none")

C14_Witness ==
  /\ probe.stage = "decoded"
  /\ ~probe.validator.present
  /\ probe.input = Str("undefined")
  /\ probe.text = Quote \o "undefined" \o Quote
  /\ probe.result.value = Str("undefined")
\* C12: without window, every read returns initialValue without a storage
\* call, and a setValue stores nothing, dispatches nothing, throws nothing
\* and leaves every exposed value as it was.
C12_NoWindowNoStorage ==
  ~window =>
    /\ \A a \in Areas : storage[a] = <<>>
    /\ stack = <<>>
    /\ clock = 0
    /\ last.got = "none"
    /\ ~last.threw /\ ~last.wrote /\ ~last.notified
    /\ \A b \in Bindings : phase[b] # "unused" => storedValue[b] = Config(b).initialValue

C12_Witness ==
  /\ ~window
  /\ last.op = "setValue"
  /\ last.b = 2
  /\ \A b \in Pair : phase[b] = "rendered"
  /\ storedValue[2] = False
\* The updater prev => !prev and its result for the value c.
Updater == [fn |-> TRUE, value |-> Undefined]
Negation(c) == IF Truthy(c) THEN False ELSE True

\* Binding x reads the entry binding b writes.
OnEntryOf(b, x) == Config(x).hook = Config(b).hook /\ Config(x).key = Config(b).key

\* Every notification of the last setValue, a setValue of binding b, has
\* been handled, the last of them in the last step.
Delivered(b) ==
  /\ stack = <<>>
  /\ last.op \in {"handle", "ignore"}
  /\ last.event.src = "setValue"
  /\ last.event.by = b

\* A step that is a successful setValue(prev => !prev) of binding b stores
\* the encoding of !c under b's key, sets b's state to !c and announces !c
\* to every listener, c being b's state (the value of the observable cell)
\* before the step.
UpdaterResolved(b) ==
  (window /\ SetValue(b, Updater, FALSE)) =>
    LET v == Negation(storedValue[b]) IN
    /\ HasItem(Config(b).hook, Config(b).key)'
    /\ Entry(b)' = JSONStringify(v)
    /\ storedValue'[b] = v
    /\ \A i \in 1..Len(stack') : stack'[i].value = v /\ stack'[i].by = b

\* C13 (as claimed): setValue(f) with exposed value c stores encode(f(c)) and
\* exposes f(c), and once its notifications are delivered every binding of
\* the area on that key exposes f(c).
C13_UpdaterResolved ==
  [][/\ \A b \in Bindings : UpdaterResolved(b)
     /\ \A b, x \in Bindings :
          (/\ (Delivered(b) /\ last.event.value \in {True, False})'
           /\ OnEntryOf(b, x)
           /\ x \in Mounted')
            => storedValue'[x] = last'.event.value]_vars
\* The readValue calls of binding b that are waiting, in their catch block,
\* for the event they dispatched to be handled.
PendingReplace(b) == {i \in 1..Len(stack) : stack[i].kind = "return" /\ stack[i].b = b}

\* C15 (as claimed): the chain of re-reads an operation triggers ends for
\* every failure pattern: a readValue of a binding, waiting for the event its
\* replace branch dispatched, is not entered again and does not write and
\* dispatch again while it waits.  (A call that does so meets, when getItem
\* keeps throwing, the situation of the call it is nested in, and the chain
\* has no end.)
C15_ReplaceChainEnds == \A b \in Bindings : Cardinality(PendingReplace(b)) <= 1
\* The bindings of the hook of binding b that the document has rendered:
\* the hook calls of that storage area.
RenderedOfArea(b) ==
  {x \in Bindings : phase[x] # "unused" /\ Config(x).hook = Config(b).hook}

\* The mounted bindings of the hook of binding b: those whose effects have
\* registered the listeners.
MountedOfArea(b) == {x \in Mounted : Config(x).hook = Config(b).hook}

\* A successful setValue queues one notification for each binding in
\* notified(last'.b) and for no other binding, each sent by that setValue.
SetValueNotifies(notified(_)) ==
  (last'.op = "setValue" /\ last'.ok) =>
    /\ {stack'[i].b : i \in 1..Len(stack')} = notified(last'.b)
    /\ Len(stack') = Cardinality(notified(last'.b))
    /\ \A i \in 1..Len(stack') :
         /\ stack'[i].kind = "handle"
         /\ stack'[i].src = "setValue"
         /\ stack'[i].by = last'.b
    /\ \A o \in Bindings \ {last'.b} : storedValue'[o] = storedValue[o]

\* A notification of the document's own write is for a binding of the hook
\* that wrote; the binding runs readValue when its turn comes (it does not
\* return early), and the step changes no exposed value of the other hook.
NotifiedReRead ==
  (stack # <<>> /\ Head(stack).src \in {"setValue", "replace"}) =>
    /\ Config(Head(stack).b).hook = Config(Head(stack).by).hook
    /\ last'.op = "handle"
    /\ last'.b = Head(stack).b
    /\ last'.got \in {"text", "null", "throw"}
    /\ \A o \in Bindings :
         Config(o).hook # Config(Head(stack).by).hook
           => storedValue'[o] = storedValue[o]

\* C16 (as claimed): a successful setValue of a binding makes every binding
\* of its storage area in the document re-read, whatever its key, and no
\* other binding; no binding of the other area re-reads or changes its
\* exposed value.
C16_AreaBindingsReRead ==
  [][SetValueNotifies(RenderedOfArea) /\ NotifiedReRead]_vars

\* C16 (amended): a successful setValue of a binding makes every binding of
\* its storage area whose effects have run (whose listeners are registered)
\* re-read, whatever its key, and no other binding: a binding of the area
\* that has rendered but not run its effects is not notified, the caller
\* included.  No binding of the other area re-reads or changes its exposed
\* value.
C16_MountedAreaBindingsReRead ==
  [][SetValueNotifies(MountedOfArea) /\ NotifiedReRead]_vars

\* Binding 1 (localStorage, k1) has re-read on a setValue of binding 3
\* (localStorage, k2) and found no entry, while binding 4 keeps the value it
\* read from the entry k1 of sessionStorage.
C16_Witness ==
  /\ Mounted = Trio
  /\ HandledSetValueOf(3, 1)
  /\ last.got = "null"
  /\ HasItem("session", "k1")
  /\ storedValue[4] = parse(storage["session"]["k1"], Config(4).schema)
  /\ storedValue[4] # Config(4).initialValue
\* Binding B's setValue followed a setValue of another binding A on the same
\* entry, and every notification of B's write has been handled.
DeliveredAfter(A, B) == A # B /\ Delivered(B) /\ last.event.after = A

\* C17 (as claimed): when the notifications of B's setValue(v2), which
\* followed A's setValue(v1) on the same entry, have been delivered, the
\* entry is encode(v2) and A and B each expose what its schema decodes from
\* encode(v2).
C17_LastWriteWins ==
  \A A, B \in Bindings :
    DeliveredAfter(A, B) =>
      /\ HasItem(Config(B).hook, Config(B).key)
      /\ Entry(B) = JSONStringify(last.event.value)
      /\ \A x \in {A, B} :
           storedValue[x] = parse(JSONStringify(last.event.value), Config(x).schema)

\* C17 (amended): the same, provided the effects of A and of B have run (their
\* listeners are registered) and no storage call threw while the
\* notifications of B's write were delivered.
C17_LastWriteWinsWhenRead ==
  \A A, B \in Bindings :
    (DeliveredAfter(A, B) /\ last.clean /\ {A, B} \subseteq Mounted) =>
      /\ HasItem(Config(B).hook, Config(B).key)
      /\ Entry(B) = JSONStringify(last.event.value)
      /\ \A x \in {A, B} :
           storedValue[x] = parse(JSONStringify(last.event.value), Config(x).schema)

C17_Witness ==
  /\ DeliveredAfter(2, 1)
  /\ last.clean
  /\ Mounted = Pair
  /\ last.event.value = Str("hello")
  /\ Entry(1) = Quote \o "hello" \o Quote
  /\ storedValue[1] = Undefined
  /\ storedValue[2] = Str("hello")
\* The entry under key of area is created or overwritten by the step.
Overwritten(area, key) ==
  /\ HasItem(area, key)'
  /\ ~HasItem(area, key) \/ storage'[area][key] # storage[area][key]

\* The step is a successful setValue of a binding of that area and key.
BySetValue(area, key) ==
  /\ last'.op = "setValue"
  /\ last'.ok
  /\ Config(last'.b).hook = area
  /\ Config(last'.b).key = key

\* C18 (as claimed): a step of the hooks (any step but a write of another
\* document) removes no entry, creates or overwrites an entry only as a
\* successful setValue of a binding for that key, and changes no storage
\* area when it is a step of the read path.
C18_OnlySetValueWrites ==
  [][last'.op # "write" =>
       /\ \A area \in Areas, key \in Keys :
            /\ HasItem(area, key) => HasItem(area, key)'
            /\ Overwritten(area, key) => BySetValue(area, key)
       /\ last'.op # "setValue" => storage' = storage]_vars

\* C18 (amended): a step of the hooks removes no entry, and creates or
\* overwrites an entry only as a successful setValue of a binding for that
\* key or as the replace branch of a read of a binding for that key with
\* replace set, whose getItem threw, and which writes the encoded
\* initialValue; a read whose getItem does not throw changes no storage area.
C18_OnlySetValueOrReplaceWrites ==
  [][last'.op # "write" =>
       /\ \A area \in Areas, key \in Keys :
            /\ HasItem(area, key) => HasItem(area, key)'
            /\ Overwritten(area, key) =>
                 \/ BySetValue(area, key)
                 \/ /\ last'.op \in ReadOps
                    /\ last'.got = "throw"
                    /\ Config(last'.b).replace
                    /\ Config(last'.b).hook = area
                    /\ Config(last'.b).key = key
                    /\ storage'[area][key] = JSONStringify(Config(last'.b).initialValue)
       /\ (last'.op # "setValue" /\ last'.got # "throw") => storage' = storage]_vars

C18_Witness ==
  /\ last.op = "render"
  /\ last.b = 1
  /\ last.got = "throw"
  /\ last.wrote
  /\ Entry(1) = JSONStringify(Config(1).initialValue)
  /\ HasItem("local", "k2")
\* What a read of binding b gives for the current storage contents.
Coherent(b) ==
  IF ~window \/ ~HasItem(Config(b).hook, Config(b).key) THEN Config(b).initialValue
  ELSE IF Entry(b) = "" THEN Config(b).initialValue
  ELSE parse(Entry(b), Config(b).schema)

\* C19 (as claimed): with a storage that never throws, whenever no
\* notification is pending (none being delivered, no storage event queued)
\* every binding that has rendered exposes what its
\* read path gives for the current storage contents: initialValue when the
\* entry under its key is absent or empty, the decoding of the entry
\* otherwise.
C19_CoherentAtQuiescence ==
  (stack = <<>> /\ pending = <<>>) =>
    \A b \in Bindings : phase[b] # "unused" => storedValue[b] = Coherent(b)

\* The effects of binding b have run (its listeners are registered), or there
\* is no window and b has rendered (effects never run on the server).
Settled(b) == phase[b] = "mounted" \/ (~window /\ phase[b] = "rendered")

\* C19 (amended): the same for every binding whose effects have run; a
\* binding between its first render and its effects listens to nothing yet
\* and keeps the value of its first read.
C19_CoherentAtQuiescenceWhenMounted ==
  (stack = <<>> /\ pending = <<>>) =>
    \A b \in Bindings : Settled(b) => storedValue[b] = Coherent(b)

C19_Witness ==
  /\ stack = <<>>
  /\ pending = <<>>
  /\ Mounted = {1}
  /\ phase[2] = "rendered"
  /\ HasItem("local", "k1") /\ Entry(1) = "false"
  /\ storedValue[1] = False
  /\ storedValue[1] = Coherent(1)
  /\ storedValue[2] = True
  /\ Coherent(2) = False
\* C20: a read that gets a text from storage which parse cannot decode (not
\* JSON, or rejected by the schema) changes no storage area and dispatches
\* no event, whatever replace is.
C20_DecodeFailureWritesNothing ==
  [][\A b \in Bindings :
       (/\ last'.op \in ReadOps
        /\ last'.b = b
        /\ last'.got = "text"
        /\ HasItem(Config(b).hook, Config(b).key)
        /\ parseError(Entry(b), Config(b).schema) # "none")
         => (/\ storage' = storage
             /\ ~last'.wrote /\ ~last'.notified
             /\ stack' = IF last'.op = "handle" THEN Tail(stack) ELSE <<>>)]_vars

C20_Witness ==
  /\ last.op = "handle"
  /\ last.b = 1
  /\ Config(1).replace
  /\ last.got = "text"
  /\ Entry(1) = "{not json"
  /\ parseError(Entry(1), Config(1).schema) = "syntax"
  /\ storedValue[1] = Undefined
  /\ ~last.wrote
====
